---- MODULE Spec2Model ----
(***************************************************************************)
(* Model of the data-insights analysis of ml-io:                           *)
(*   src/src/mlio-py/mlio/core/insights.cxx  (column_analysis,             *)
(*       column_analyzer::operator(), analyze_dataset)                     *)
(*   src/src/mlio/util/string.cxx            (trim, matches,               *)
(*       only_whitespace)                                                  *)
(*                                                                         *)
(* A std::string is a sequence of one-character strings.  A double is a    *)
(* record [nan, v]: the quiet NaN, or the integer v (every double the      *)
(* model computes is a small integer, which a double holds exactly).       *)
(* Column indices are 0-based as in the source; sequences are 1-based, so  *)
(* columns->at(i) is columns[i + 1].                                       *)
(***************************************************************************)
EXTENDS Integers, Sequences, FiniteSets, TLC

VARIABLES
    pc,                 \* position of analyze_dataset
    end_of_dataset,     \* insights.cxx:175
    exm,                \* insights.cxx:178, the current example
    columns,            \* insights.cxx:179, the accumulators
    tasks,              \* the subrange tasks of the running parallel_for
    null_like_values,   \* parameter of analyze_dataset
    capture_columns,    \* parameter of analyze_dataset
    max_capture_count,  \* parameter of analyze_dataset
    result,             \* what analyze_dataset has returned to its caller
    batches_read,       \* history: the examples the reader has yielded
    folded              \* history: per accumulator, the cells folded into it

vars == <<pc, end_of_dataset, exm, columns, tasks, null_like_values,
          capture_columns, max_capture_count, result, batches_read, folded>>

(***************************************************************************)
(* Bounds of the model.                                                    *)
(***************************************************************************)
MaxBatches == 2        \* examples the reader yields before the end signal
MaxCols == 2           \* features of one example
MaxRows == 2           \* rows of one example
MaxCells == 4          \* string cells of the whole dataset
MaxCaptureCount == 2   \* largest max_capture_count tried

(***************************************************************************)
(* Doubles.                                                                *)
(***************************************************************************)
quiet_NaN == [nan |-> TRUE, v |-> 0]

Double(n) == [nan |-> FALSE, v |-> n]

isnan(d) == d.nan

\* d += n : NaN + n is NaN
DoubleAdd(d, n) == IF d.nan THEN d ELSE [d EXCEPT !.v = @ + n]

\* a < b, false when either side is NaN
DoubleLess(a, b) == ~a.nan /\ ~b.nan /\ a.v < b.v

(***************************************************************************)
(* Characters and strings.                                                 *)
(***************************************************************************)
isspace(ch) == ch \in {" ", "\t"}

tolower(ch) ==
    CASE ch = "N" -> "n"
      [] ch = "A" -> "a"
      [] OTHER -> ch

\* std::find_if_not(first, last, isspace) - first, on the sequence s
RECURSIVE find_first_non_space(_)
find_first_non_space(s) ==
    IF s = <<>> \/ ~isspace(Head(s)) THEN 0
    ELSE 1 + find_first_non_space(Tail(s))

Reverse(s) == [i \in 1..Len(s) |-> s[Len(s) + 1 - i]]

ltrim(s) == SubSeq(s, find_first_non_space(s) + 1, Len(s))

rtrim(s) == SubSeq(s, 1, Len(s) - find_first_non_space(Reverse(s)))

\* trim takes its argument by value and returns the trimmed view
trim(s) == rtrim(ltrim(s))

\* matches() calls trim(local_copy) and drops the view it returns, so the
\* copy that is looked up is the untrimmed one
matches(s, match_values) ==
    LET local_copy == s
        dropped == trim(local_copy)
    IN  local_copy \in match_values

only_whitespace(s) == \A i \in 1..Len(s) : isspace(s[i])

\* std::transform(as_string.begin(), as_string.end(), ..., ::tolower)
Lowercase(s) == [i \in 1..Len(s) |-> tolower(s[i])]

(***************************************************************************)
(* mlio::try_parse_float (mlio/util/number.h): a strict grammar, here      *)
(* unsigned decimal integers: the whole cell must be digits.               *)
(***************************************************************************)
Digits == {"0", "1", "2", "3", "4", "5", "6", "7", "8", "9"}

DigitValue(ch) ==
    CASE ch = "0" -> 0 [] ch = "1" -> 1 [] ch = "2" -> 2 [] ch = "3" -> 3
      [] ch = "4" -> 4 [] ch = "5" -> 5 [] ch = "6" -> 6 [] ch = "7" -> 7
      [] ch = "8" -> 8 [] ch = "9" -> 9

RECURSIVE DecimalValue(_)
DecimalValue(s) ==
    IF s = <<>> THEN 0
    ELSE 10 * DecimalValue(SubSeq(s, 1, Len(s) - 1)) + DigitValue(s[Len(s)])

try_parse_float(s) ==
    IF s # <<>> /\ \A i \in 1..Len(s) : s[i] \in Digits
    THEN [ok |-> TRUE, value |-> Double(DecimalValue(s))]
    ELSE [ok |-> FALSE, value |-> quiet_NaN]

(***************************************************************************)
(* column_analysis and the per-cell update of column_analyzer.             *)
(***************************************************************************)
column_analysis(name) ==
    [ column_name |-> name,
      rows_seen |-> 0,
      numeric_mean |-> Double(0),
      numeric_count |-> 0,
      numeric_nan_count |-> 0,
      numeric_min |-> quiet_NaN,
      numeric_max |-> quiet_NaN,
      string_empty_count |-> 0,
      string_only_whitespace_count |-> 0,
      string_null_like_count |-> 0,
      string_captured_unique_values |-> {},
      string_captured_unique_values_overflowed |-> FALSE,
      null_empty_count |-> 0,
      null_like_count |-> 0,
      null_whitespace_only_count |-> 0,
      example_value |-> <<>> ]

\* insights.cxx:83-87 and 226: the data_analysis that analyze_dataset returns
\* holds a copy of the accumulators
data_analysis(columns_) == [returned |-> TRUE, columns |-> columns_]

\* nothing has been returned: analyze_dataset is running, or has thrown
NoResult == [returned |-> FALSE, columns |-> <<>>]

\* insights.cxx:108-111
CellHeader(fs, as_string) ==
    [fs EXCEPT !.rows_seen = @ + 1,
               !.example_value = as_string,
               !.numeric_min = DoubleAdd(@, 1),
               !.string_null_like_count = @ + 1]

\* mutant: the value is inserted without the test of the bound
CaptureUniqueValue_Unbounded(fs, as_string, should_capture, mcc) ==
    IF ~should_capture THEN fs
    ELSE [fs EXCEPT !.string_captured_unique_values = @ \cup {as_string}]

\* mutant: a full set raises the flag without the test of presence
CaptureUniqueValue_FlagWhenFull(fs, as_string, should_capture, mcc) ==
    IF ~should_capture THEN fs
    ELSE IF Cardinality(fs.string_captured_unique_values) < mcc
    THEN [fs EXCEPT !.string_captured_unique_values = @ \cup {as_string}]
    ELSE [fs EXCEPT !.string_captured_unique_values_overflowed = TRUE]

\* mutant: the values are captured whether or not the column is flagged
CaptureUniqueValue_EveryColumn(fs, as_string, should_capture, mcc) ==
    IF Cardinality(fs.string_captured_unique_values) < mcc
    THEN [fs EXCEPT !.string_captured_unique_values = @ \cup {as_string}]
    ELSE IF as_string \notin fs.string_captured_unique_values
    THEN [fs EXCEPT !.string_captured_unique_values_overflowed = TRUE]
    ELSE fs

\* mutant: the test of the bound is off by one
CaptureUniqueValue_OffByOne(fs, as_string, should_capture, mcc) ==
    IF ~should_capture THEN fs
    ELSE IF Cardinality(fs.string_captured_unique_values) + 1 < mcc
    THEN [fs EXCEPT !.string_captured_unique_values = @ \cup {as_string}]
    ELSE IF as_string \notin fs.string_captured_unique_values
    THEN [fs EXCEPT !.string_captured_unique_values_overflowed = TRUE]
    ELSE fs

\* insights.cxx:113-121
CaptureUniqueValue(fs, as_string, should_capture, mcc) ==
    IF ~should_capture THEN fs
    ELSE IF Cardinality(fs.string_captured_unique_values) < mcc
    THEN [fs EXCEPT !.string_captured_unique_values = @ \cup {as_string}]
    ELSE IF as_string \notin fs.string_captured_unique_values
    THEN [fs EXCEPT !.string_captured_unique_values_overflowed = TRUE]
    ELSE fs

\* mutant: a cell that fails to parse is not counted
NumericAnalyzers_NoNanCount(fs, as_string) ==
    LET parsed == try_parse_float(as_string)
    IN  IF ~parsed.ok THEN fs
        ELSE [fs EXCEPT !.numeric_count = @ + 1]

\* insights.cxx:124-135
NumericAnalyzers(fs, as_string) ==
    LET parsed == try_parse_float(as_string)
        as_float == parsed.value
    IN  IF ~parsed.ok
        THEN [fs EXCEPT !.numeric_nan_count = @ + 1]
        ELSE [fs EXCEPT
                !.numeric_count = @ + 1,
                !.numeric_min = IF isnan(@) \/ DoubleLess(as_float, @)
                                THEN as_float ELSE @,
                !.numeric_max = IF isnan(@) \/ DoubleLess(@, as_float)
                                THEN as_float ELSE @]

\* insights.cxx:137-150
StringAnalyzers(fs, as_string, nlv) ==
    LET lowercase_string == Lowercase(as_string)
    IN  [fs EXCEPT
           !.string_empty_count =
               IF Len(as_string) = 0 THEN @ + 1 ELSE @,
           !.string_only_whitespace_count =
               IF only_whitespace(as_string) THEN @ + 1 ELSE @,
           !.string_null_like_count =
               IF matches(lowercase_string, nlv) THEN @ + 1 ELSE @]

\* insights.cxx:107-151, the body of the loop over the cells
FoldCell(fs, as_string, should_capture, mcc, nlv) ==
    StringAnalyzers(
        NumericAnalyzers(
            CaptureUniqueValue(CellHeader(fs, as_string),
                               as_string, should_capture, mcc),
            as_string),
        as_string, nlv)

(***************************************************************************)
(* The reader's examples.  An example holds one tensor per feature; a      *)
(* string tensor holds one cell per row, a tensor of another data type     *)
(* holds no string cell.                                                   *)
(***************************************************************************)
CellValues == { <<"1">>, <<"a">> }

StringTensors(r) ==
    { [dtype |-> "string", cells |-> c] : c \in [1..r -> CellValues] }

OtherTensor == [dtype |-> "float32", cells |-> <<>>]

Examples ==
    { [null |-> FALSE, features |-> f] :
        f \in UNION { [1..k -> StringTensors(r) \cup {OtherTensor}] :
                        k \in 0..MaxCols, r \in 1..MaxRows } }

\* the nullptr read_example() returns at the end of the dataset
NullExample == [null |-> TRUE, features |-> <<>>]

\* exm->get_schema().descriptors(): one descriptor per feature; the name of
\* the descriptor at position i is modelled by i
descriptors(e) == [i \in 1..Len(e.features) |-> [name |-> i - 1]]

RECURSIVE CellCount(_)
CellCount(f) ==
    IF f = <<>> THEN 0 ELSE Len(Head(f).cells) + CellCount(Tail(f))

RECURSIVE CellsRead(_)
CellsRead(bs) ==
    IF bs = <<>> THEN 0 ELSE CellCount(Head(bs).features) + CellsRead(Tail(bs))

(***************************************************************************)
(* tbb::parallel_for over blocked_range<size_t>(0, n): the range is split  *)
(* into contiguous subranges and the body runs once on each of them.       *)
(***************************************************************************)
NewTask(b, e) ==
    [begin |-> b, end |-> e, feature_idx |-> b, cell_idx |-> 0, threw |-> FALSE]

\* mutant: the loop over the features runs to the last column
RangeEnd_LastColumn(b, cuts, n) == n

\* r.end() of the subrange that begins at b (insights.cxx:98)
RangeEnd(b, cuts, n) ==
    CHOOSE e \in (cuts \cup {n}) :
        e > b /\ \A c \in cuts \cup {n} : c > b => e <= c

\* the subranges that the split points `cuts` make of [0, n)
Subranges(cuts, n) ==
    IF n = 0 THEN {}
    ELSE { NewTask(b, RangeEnd(b, cuts, n)) : b \in {0} \cup cuts }

Splits(n) == IF n = 0 THEN {{}} ELSE SUBSET (1..(n - 1))

\* mutant: the accumulator is indexed by the offset in the subrange
AccessedColumn_RangeOffset(t) == t.feature_idx - t.begin

\* the column whose accumulator the task is working on (insights.cxx:100)
AccessedColumn(t) == t.feature_idx

Finished(t) == t.threw \/ t.feature_idx = t.end

Started(t) == t.threw \/ t.feature_idx > t.begin \/ t.cell_idx > 0

ExceptionRaised == \E t \in tasks : t.threw

\* features().at(feature_idx) throws std::out_of_range past the last feature
at_throws(e, feature_idx) == feature_idx >= Len(e.features)

\* dense_tensor::data().as<std::string>() on a tensor of another data type
as_string_throws(tensor) == tensor.dtype # "string"

\* insights.cxx:99-103: the loop header of feature feature_idx throws
FeatureThrows(e, feature_idx) ==
    IF at_throws(e, feature_idx) THEN TRUE
    ELSE as_string_throws(e.features[feature_idx + 1])

(***************************************************************************)
(* analyze_dataset.                                                        *)
(***************************************************************************)
Init ==
    /\ pc = "loop"
    /\ end_of_dataset = FALSE
    /\ exm = NullExample
    /\ columns = <<>>
    /\ tasks = {}
    /\ null_like_values = { <<"n", "a">> }
    /\ capture_columns = {0}
    /\ max_capture_count \in 0..MaxCaptureCount
    /\ result = NoResult
    /\ batches_read = <<>>
    /\ folded = <<>>

\* insights.cxx:196-202
AllocateColumns(e) ==
    [i \in 1..Len(descriptors(e)) |-> column_analysis(descriptors(e)[i].name)]

\* mutant: only the first tensor of the example is tested
UnsupportedTensor_FirstOnly(e) ==
    e.features # <<>> /\ e.features[1].dtype # "string"

\* insights.cxx:203-221
UnsupportedTensor(e) ==
    \E i \in 1..Len(e.features) : e.features[i].dtype # "string"

\* insights.cxx:189-224: a pull that yields an example, the allocation on
\* the first example, and the fork of parallel_for
ReadExample(e) ==
    /\ pc = "loop"
    /\ ~end_of_dataset
    /\ Len(batches_read) < MaxBatches
    /\ CellsRead(batches_read) + CellCount(e.features) <= MaxCells
    /\ exm' = e
    /\ batches_read' = Append(batches_read, e)
    /\ LET first == columns = <<>>
           cols == IF first THEN AllocateColumns(e) ELSE columns
       IN  /\ columns' = cols
           /\ folded' = IF first THEN [i \in 1..Len(cols) |-> <<>>] ELSE folded
           /\ IF first /\ UnsupportedTensor(e)
              THEN /\ pc' = "thrown"
                   /\ tasks' = {}
              ELSE /\ pc' = "parallel_for"
                   /\ \E cuts \in Splits(Len(cols)) :
                         tasks' = Subranges(cuts, Len(cols))
    /\ UNCHANGED <<end_of_dataset, null_like_values, capture_columns,
                   max_capture_count,
                   result>>

\* mutant: the flag is set but the loop is not left
ReadEnd_NoReturn ==
    /\ pc = "loop"
    /\ ~end_of_dataset
    /\ exm' = NullExample
    /\ end_of_dataset' = TRUE
    /\ UNCHANGED <<pc, columns, tasks, null_like_values, capture_columns,
                   max_capture_count, result, batches_read, folded>>

\* mutant: an end signal that finds no accumulator is taken for an error
ReadEnd_EmptyIsError ==
    /\ pc = "loop"
    /\ ~end_of_dataset
    /\ exm' = NullExample
    /\ end_of_dataset' = TRUE
    /\ pc' = IF columns = <<>> THEN "thrown" ELSE "returned"
    /\ result' = IF columns = <<>> THEN result ELSE data_analysis(columns)
    /\ UNCHANGED <<columns, tasks, null_like_values, capture_columns,
                   max_capture_count, batches_read, folded>>

\* insights.cxx:189-193 and 226: the pull that yields nullptr, and the return
ReadEnd ==
    /\ pc = "loop"
    /\ ~end_of_dataset
    /\ exm' = NullExample
    /\ end_of_dataset' = TRUE
    /\ pc' = "returned"
    /\ result' = data_analysis(columns)
    /\ UNCHANGED <<columns, tasks, null_like_values, capture_columns,
                   max_capture_count, batches_read, folded>>

\* mutant: the exception of read_example() is swallowed and the
\* accumulators built so far are returned
ReadFails_ReturnsPartial ==
    /\ pc = "loop"
    /\ ~end_of_dataset
    /\ pc' = "returned"
    /\ result' = data_analysis(columns)
    /\ UNCHANGED <<end_of_dataset, exm, columns, tasks, null_like_values,
                   capture_columns, max_capture_count, batches_read, folded>>

\* insights.cxx:189: read_example() throws, and the exception leaves
\* analyze_dataset
ReadFails ==
    /\ pc = "loop"
    /\ ~end_of_dataset
    /\ pc' = "thrown"
    /\ UNCHANGED <<end_of_dataset, exm, columns, tasks, null_like_values,
                   capture_columns, max_capture_count, batches_read, folded,
                   result>>

\* insights.cxx:98-151: one iteration of the loop over the cells, with the
\* loop header of the feature when the cell is its first
TaskFold(t) ==
    /\ pc = "parallel_for"
    /\ t \in tasks
    /\ ~Finished(t)
    /\ ~FeatureThrows(exm, t.feature_idx)
    /\ LET c == AccessedColumn(t)
           cells == exm.features[t.feature_idx + 1].cells
           as_string == cells[t.cell_idx + 1]
           should_capture == t.feature_idx \in capture_columns
           last == t.cell_idx + 1 = Len(cells)
       IN  /\ columns' = [columns EXCEPT ![c + 1] =
                            FoldCell(@, as_string, should_capture,
                                     max_capture_count, null_like_values)]
           /\ folded' = [folded EXCEPT ![c + 1] = Append(@, as_string)]
           /\ tasks' = (tasks \ {t}) \cup
                 { IF last
                   THEN [t EXCEPT !.feature_idx = @ + 1, !.cell_idx = 0]
                   ELSE [t EXCEPT !.cell_idx = @ + 1] }
    /\ UNCHANGED <<pc, end_of_dataset, exm, null_like_values, capture_columns,
                   max_capture_count, batches_read,
                   result>>

\* insights.cxx:99-103: the loop header of a feature throws
TaskThrow(t) ==
    /\ pc = "parallel_for"
    /\ t \in tasks
    /\ ~Finished(t)
    /\ t.cell_idx = 0
    /\ FeatureThrows(exm, t.feature_idx)
    /\ tasks' = (tasks \ {t}) \cup { [t EXCEPT !.threw = TRUE] }
    /\ UNCHANGED <<pc, end_of_dataset, exm, columns, null_like_values,
                   capture_columns, max_capture_count, batches_read, folded,
                   result>>

\* parallel_for returns once every subrange has run; after an exception
\* the subranges that have not started are cancelled, and parallel_for
\* rethrows
\* mutant: parallel_for returns without waiting for the tasks
JoinReady_NoWait == TRUE

JoinReady ==
    \A t \in tasks : Finished(t) \/ (ExceptionRaised /\ ~Started(t))

Join ==
    /\ pc = "parallel_for"
    /\ JoinReady
    /\ pc' = IF ExceptionRaised THEN "thrown" ELSE "loop"
    /\ tasks' = {}
    /\ UNCHANGED <<end_of_dataset, exm, columns, null_like_values,
                   capture_columns, max_capture_count, batches_read, folded,
                   result>>

Next ==
    \/ \E e \in Examples : ReadExample(e)
    \/ ReadEnd
    \/ ReadFails
    \/ \E t \in tasks : TaskFold(t)
    \/ \E t \in tasks : TaskThrow(t)
    \/ Join

Spec == Init /\ [][Next]_vars

(***************************************************************************)
(* One accumulator folding a stream of cells: the loop of                  *)
(* insights.cxx:107-151 on a dataset of one column, with cells drawn from  *)
(* a richer set.                                                           *)
(***************************************************************************)
FoldCellValues ==
    { <<"1">>, <<"2">>, <<>>, <<" ", " ">>, <<"a", "b", "c">>,
      <<"N", "A">>, <<" ", "n", "a", " ">> }

InitFold ==
    /\ pc = "fold"
    /\ end_of_dataset = FALSE
    /\ exm = NullExample
    /\ columns = << column_analysis(0) >>
    /\ tasks = {}
    /\ null_like_values = { <<"n", "a">> }
    /\ capture_columns \in { {}, {0} }
    /\ max_capture_count \in 0..MaxCaptureCount
    /\ result = NoResult
    /\ batches_read = <<>>
    /\ folded = << <<>> >>

Fold(as_string) ==
    /\ pc = "fold"
    /\ Len(folded[1]) < MaxCells
    /\ columns' = [columns EXCEPT ![1] =
                     FoldCell(@, as_string, 0 \in capture_columns,
                              max_capture_count, null_like_values)]
    /\ folded' = [folded EXCEPT ![1] = Append(@, as_string)]
    /\ UNCHANGED <<pc, end_of_dataset, exm, tasks, null_like_values,
                   capture_columns, max_capture_count, batches_read,
                   result>>

NextFold == \E as_string \in FoldCellValues : Fold(as_string)

SpecFold == InitFold /\ [][NextFold]_vars

(***************************************************************************)
(* Helpers of the properties.                                              *)
(***************************************************************************)
ColumnIndexes == 1..Len(columns)

\* the cells of feature i (1-based) over the examples bs, in reader order
RECURSIVE ColumnCells(_, _)
ColumnCells(bs, i) ==
    IF bs = <<>> THEN <<>>
    ELSE (IF i <= Len(Head(bs).features) THEN Head(bs).features[i].cells
          ELSE <<>>) \o ColumnCells(Tail(bs), i)

\* the values of the cells of s that parse, in order
RECURSIVE ParsedValues(_)
ParsedValues(s) ==
    IF s = <<>> THEN <<>>
    ELSE (IF try_parse_float(Head(s)).ok
          THEN << try_parse_float(Head(s)).value.v >> ELSE <<>>)
         \o ParsedValues(Tail(s))

RECURSIVE SeqSum(_)
SeqSum(s) == IF s = <<>> THEN 0 ELSE Head(s) + SeqSum(Tail(s))

SeqRange(s) == { s[i] : i \in 1..Len(s) }

\* the first n distinct values of s, in order of arrival
RECURSIVE FirstDistinct(_, _, _)
FirstDistinct(s, n, seen) ==
    IF s = <<>> \/ Cardinality(seen) >= n THEN seen
    ELSE FirstDistinct(Tail(s), n, seen \cup {Head(s)})

(***************************************************************************)
(* C1: in every state, every accumulator has                               *)
(* numeric_count + numeric_nan_count = rows_seen.                          *)
(***************************************************************************)
C1_NumericCountersPartitionRows ==
    \A c \in ColumnIndexes :
        columns[c].numeric_count + columns[c].numeric_nan_count
            = columns[c].rows_seen

C1_Witness ==
    \E c \in ColumnIndexes :
        /\ columns[c].numeric_count >= 1
        /\ columns[c].numeric_nan_count >= 1
        /\ columns[c].rows_seen >= 2

(***************************************************************************)
(* C2: in every state the captured set of every accumulator holds at most  *)
(* max_capture_count values, and no step takes the overflowed flag of an   *)
(* accumulator from true back to false.                                    *)
(***************************************************************************)
CaptureBounded ==
    \A c \in ColumnIndexes :
        Cardinality(columns[c].string_captured_unique_values)
            <= max_capture_count

OverflowSticks ==
    \A c \in ColumnIndexes :
        columns[c].string_captured_unique_values_overflowed
            => /\ c <= Len(columns')
               /\ columns'[c].string_captured_unique_values_overflowed

C2_CaptureBoundedOverflowSticky ==
    []CaptureBounded /\ [][OverflowSticks]_vars

C2_Witness ==
    \E c \in ColumnIndexes :
        /\ columns[c].string_captured_unique_values_overflowed
        /\ Cardinality(columns[c].string_captured_unique_values)
               = max_capture_count
        /\ max_capture_count >= 1
        /\ Len(batches_read) = 2
        /\ pc = "returned"

(***************************************************************************)
(* C3: while parallel_for runs, the subranges of the tasks are pairwise    *)
(* disjoint and cover every column index exactly once, no two unfinished   *)
(* tasks work on the same accumulator, and a step changes at most the one  *)
(* accumulator of a task that is at that column, leaving the example and   *)
(* the parameters the tasks share untouched.                               *)
(***************************************************************************)
TaskRange(t) == t.begin..(t.end - 1)

OneTaskPerColumn ==
    pc = "parallel_for" =>
        /\ \A t1, t2 \in tasks :
              t1 # t2 => /\ TaskRange(t1) \cap TaskRange(t2) = {}
                         /\ ~Finished(t1) /\ ~Finished(t2)
                                => AccessedColumn(t1) # AccessedColumn(t2)
        /\ \A i \in 0..(Len(columns) - 1) :
              Cardinality({ t \in tasks : i \in TaskRange(t) }) = 1
        /\ \A t \in tasks :
              ~Finished(t) => AccessedColumn(t) \in TaskRange(t)

TaskWritesOwnColumnOnly ==
    pc = "parallel_for" /\ pc' = "parallel_for" =>
        /\ exm' = exm
        /\ Len(columns') = Len(columns)
        /\ <<null_like_values, capture_columns, max_capture_count>>'
              = <<null_like_values, capture_columns, max_capture_count>>
        /\ \A c \in ColumnIndexes :
              columns'[c] # columns[c] =>
                  /\ \E t \in tasks :
                        /\ ~Finished(t)
                        /\ t.feature_idx = c - 1
                        /\ t \notin tasks'
                  /\ \A d \in ColumnIndexes : d # c => columns'[d] = columns[d]

C3_ColumnsPartitionedAmongTasks ==
    []OneTaskPerColumn /\ [][TaskWritesOwnColumnOnly]_vars

C3_Witness ==
    /\ pc = "parallel_for"
    /\ Cardinality(tasks) = 2
    /\ \A t \in tasks : Started(t) /\ ~Finished(t)

(***************************************************************************)
(* C4: the reader is pulled, and the current example replaced, only when   *)
(* no task exists; and whenever the driver is back at the pull every       *)
(* accumulator has folded all the cells of its column of every example     *)
(* read so far, in reader order.                                           *)
(***************************************************************************)
PullOnlyAfterJoin ==
    (exm' # exm \/ batches_read' # batches_read
        \/ end_of_dataset' # end_of_dataset)
        => tasks = {} /\ pc = "loop"

BatchesFoldedBeforePull ==
    pc = "loop" =>
        /\ tasks = {}
        /\ \A c \in ColumnIndexes : folded[c] = ColumnCells(batches_read, c)

C4_ForkJoinBeforeNextPull ==
    []BatchesFoldedBeforePull /\ [][PullOnlyAfterJoin]_vars

C4_Witness ==
    /\ pc = "loop"
    /\ Len(batches_read) = 2
    /\ Len(columns) = 2
    /\ \A c \in ColumnIndexes : Len(folded[c]) = 2

(***************************************************************************)
(* C5: whenever the driver is at the pull or has returned, the             *)
(* accumulators are those the sequential fold of the examples read so far  *)
(* produces, whatever the split into tasks and their interleaving was.     *)
(***************************************************************************)
RECURSIVE SeqFoldCells(_, _, _)
SeqFoldCells(fs, cells, should_capture) ==
    IF cells = <<>> THEN fs
    ELSE SeqFoldCells(FoldCell(fs, Head(cells), should_capture,
                               max_capture_count, null_like_values),
                      Tail(cells), should_capture)

SeqFoldExample(cols, e) ==
    LET cols1 == IF cols = <<>> THEN AllocateColumns(e) ELSE cols
    IN  [i \in 1..Len(cols1) |->
            IF FeatureThrows(e, i - 1) THEN cols1[i]
            ELSE SeqFoldCells(cols1[i], e.features[i].cells,
                              (i - 1) \in capture_columns)]

RECURSIVE SeqAnalyze(_, _)
SeqAnalyze(cols, bs) ==
    IF bs = <<>> THEN cols
    ELSE SeqAnalyze(SeqFoldExample(cols, Head(bs)), Tail(bs))

C5_ResultIndependentOfInterleaving ==
    pc \in {"loop", "returned"} => columns = SeqAnalyze(<<>>, batches_read)

C5_Witness ==
    /\ pc = "returned"
    /\ Len(batches_read) = 2
    /\ Len(columns) = 2
    /\ \A c \in ColumnIndexes : columns[c].rows_seen = 2

(***************************************************************************)
(* C6: when analyze has returned, every column of every example read has   *)
(* an accumulator, that accumulator has folded exactly the cells of the    *)
(* column, in batch order and in-batch order, and its rows_seen is their   *)
(* number.                                                                 *)
(***************************************************************************)
C6_EveryCellFoldedOnceInOrder ==
    pc = "returned" =>
        \A b \in 1..Len(batches_read) :
            \A i \in 1..Len(batches_read[b].features) :
                /\ i <= Len(columns)
                /\ folded[i] = ColumnCells(batches_read, i)
                /\ columns[i].rows_seen = Len(ColumnCells(batches_read, i))

(***************************************************************************)
(* C7: for a captured column, a cell already in the captured set changes   *)
(* neither the set nor the flag, a new cell is inserted while the set is   *)
(* below max_capture_count, and a new cell that finds the set full sets    *)
(* the flag; so the set is the first max_capture_count distinct cells in   *)
(* arrival order and the flag says that more distinct cells than that      *)
(* have arrived.                                                           *)
(***************************************************************************)
CapturedSet(c) == columns[c].string_captured_unique_values

Overflowed(c) == columns[c].string_captured_unique_values_overflowed

CaptureStepRule ==
    0 \in capture_columns /\ Len(folded'[1]) = Len(folded[1]) + 1 =>
        LET cell == folded'[1][Len(folded'[1])]
        IN  IF cell \in CapturedSet(1)
            THEN CapturedSet(1)' = CapturedSet(1)
                    /\ Overflowed(1)' = Overflowed(1)
            ELSE IF Cardinality(CapturedSet(1)) < max_capture_count
            THEN CapturedSet(1)' = CapturedSet(1) \cup {cell}
                    /\ Overflowed(1)' = Overflowed(1)
            ELSE CapturedSet(1)' = CapturedSet(1) /\ Overflowed(1)' = TRUE

CaptureIsFirstDistinct ==
    0 \in capture_columns =>
        /\ CapturedSet(1) = FirstDistinct(folded[1], max_capture_count, {})
        /\ Overflowed(1)
              <=> Cardinality(SeqRange(folded[1])) > max_capture_count

C7_CaptureFirstDistinctValues ==
    []CaptureIsFirstDistinct /\ [][CaptureStepRule]_vars

C7_Witness ==
    /\ 0 \in capture_columns
    /\ max_capture_count = 2
    /\ folded[1] = << <<"1">>, <<"2">>, <<"a", "b", "c">>, <<"1">> >>
    /\ CapturedSet(1) = { <<"1">>, <<"2">> }
    /\ Overflowed(1)

(***************************************************************************)
(* C8: in every state, an accumulator whose numeric_min and numeric_max    *)
(* are both present has numeric_min <= numeric_max.                        *)
(***************************************************************************)
C8_MinNotAboveMax ==
    \A c \in ColumnIndexes :
        ~isnan(columns[c].numeric_min) /\ ~isnan(columns[c].numeric_max)
            => columns[c].numeric_min.v <= columns[c].numeric_max.v

(***************************************************************************)
(* C9: numeric_min and numeric_max are absent while no folded cell has     *)
(* parsed, and otherwise are the smallest and the largest of the values    *)
(* parsed so far.                                                          *)
(***************************************************************************)
SetMin(S) == CHOOSE x \in S : \A y \in S : x <= y

SetMax(S) == CHOOSE x \in S : \A y \in S : y <= x

C9_MinMaxOfParsedValues ==
    \A c \in ColumnIndexes :
        LET parsed == SeqRange(ParsedValues(folded[c]))
        IN  IF parsed = {}
            THEN isnan(columns[c].numeric_min) /\ isnan(columns[c].numeric_max)
            ELSE /\ columns[c].numeric_min = Double(SetMin(parsed))
                 /\ columns[c].numeric_max = Double(SetMax(parsed))

(***************************************************************************)
(* C10: numeric_mean is the arithmetic mean of the values parsed so far    *)
(* (numeric_mean * numeric_count is their sum), and is its initial value   *)
(* while no cell has parsed.                                               *)
(***************************************************************************)
C10_MeanOfParsedValues ==
    \A c \in ColumnIndexes :
        /\ ~isnan(columns[c].numeric_mean)
        /\ columns[c].numeric_mean.v * columns[c].numeric_count
              = SeqSum(ParsedValues(folded[c]))
        /\ columns[c].numeric_count = 0 => columns[c].numeric_mean = Double(0)

(***************************************************************************)
(* C11: string_null_like_count is the number of folded cells whose         *)
(* case-folded, trimmed value is in null_like_values (a fold adds one to   *)
(* it exactly for such a cell).                                            *)
(***************************************************************************)
NullLikeCell(cell) == trim(Lowercase(cell)) \in null_like_values

C11_NullLikeCountsMatchingCells ==
    \A c \in ColumnIndexes :
        columns[c].string_null_like_count
            = Cardinality({ i \in 1..Len(folded[c]) :
                              NullLikeCell(folded[c][i]) })

(***************************************************************************)
(* C12: string_only_whitespace_count is the number of folded cells that    *)
(* are not empty and hold whitespace only, and string_empty_count the      *)
(* number of empty cells, so that no cell is counted in both.              *)
(***************************************************************************)
WhitespaceOnlyCell(cell) ==
    cell # <<>> /\ \A i \in 1..Len(cell) : isspace(cell[i])

C12_WhitespaceCountExcludesEmpty ==
    \A c \in ColumnIndexes :
        /\ columns[c].string_only_whitespace_count
              = Cardinality({ i \in 1..Len(folded[c]) :
                                WhitespaceOnlyCell(folded[c][i]) })
        /\ columns[c].string_empty_count
              = Cardinality({ i \in 1..Len(folded[c]) : folded[c][i] = <<>> })

(***************************************************************************)
(* C13: when the first example holds a column whose data type is not       *)
(* string, analyze_dataset has thrown: no task was started, no cell was    *)
(* folded into any accumulator, no further example was read and nothing    *)
(* was returned.                                                           *)
(***************************************************************************)
HasNonStringColumn(e) ==
    \E i \in 1..Len(e.features) : e.features[i].dtype # "string"

C13_NonStringFirstExampleFailsFast ==
    Len(batches_read) >= 1 /\ HasNonStringColumn(batches_read[1]) =>
        /\ pc = "thrown"
        /\ tasks = {}
        /\ result = NoResult
        /\ Len(batches_read) = 1
        /\ \A c \in ColumnIndexes :
              folded[c] = <<>> /\ columns[c].rows_seen = 0

C13_Witness ==
    /\ pc = "thrown"
    /\ Len(batches_read) = 1
    /\ Len(batches_read[1].features) = 2
    /\ batches_read[1].features[1].dtype = "string"
    /\ Len(batches_read[1].features[1].cells) = 2
    /\ batches_read[1].features[2].dtype # "string"

(***************************************************************************)
(* C14: once a later example differs from the first in its number of       *)
(* columns, or holds a column that is not string, the driver neither goes  *)
(* back to the pull nor returns: the run aborts and nothing is returned.   *)
(***************************************************************************)
SchemaMismatch(b) ==
    \/ Len(batches_read[b].features) # Len(batches_read[1].features)
    \/ HasNonStringColumn(batches_read[b])

C14_LaterSchemaMismatchAborts ==
    (\E b \in 2..Len(batches_read) : SchemaMismatch(b)) =>
        /\ pc \in {"parallel_for", "thrown"}
        /\ result = NoResult

(***************************************************************************)
(* C15: the driver always ends (it returns, or an exception leaves it),    *)
(* it returns exactly when the reader has given the end signal, and from   *)
(* the end signal on nothing happens any more: no pull, no task.           *)
(*                                                                         *)
(* FairSpec: the driver thread and the worker threads of parallel_for keep *)
(* running while they have something to do, and read_example() comes back. *)
(* The control flow does not read max_capture_count, so FairSpec fixes it. *)
(***************************************************************************)
InitFair == Init /\ max_capture_count = MaxCaptureCount

FairSpec == InitFair /\ [][Next]_vars /\ WF_vars(Next)

Terminated == pc \in {"returned", "thrown"}

EndSignalStopsTheLoop ==
    /\ end_of_dataset <=> pc = "returned"
    /\ end_of_dataset => exm = NullExample /\ tasks = {}

NoStepAfterEndSignal == ~end_of_dataset

C15_LoopTerminatesAtEndSignal ==
    /\ <>Terminated
    /\ []EndSignalStopsTheLoop
    /\ [][NoStepAfterEndSignal]_vars

C15_Witness ==
    /\ pc = "returned"
    /\ end_of_dataset
    /\ Len(batches_read) = 2
    /\ \A c \in ColumnIndexes : columns[c].rows_seen = 2
    /\ Len(columns) = 2

(***************************************************************************)
(* C16: when the first pull gives the end signal, analyze_dataset returns  *)
(* an empty collection of accumulators and throws nothing.                 *)
(***************************************************************************)
C16_EmptyDatasetReturnsEmpty ==
    end_of_dataset /\ batches_read = <<>> =>
        /\ pc = "returned"
        /\ result = data_analysis(<<>>)

C16_Witness ==
    /\ batches_read = <<>>
    /\ end_of_dataset
    /\ result.returned
    /\ result.columns = <<>>

(***************************************************************************)
(* C17: a result is returned only at the end signal, and then every        *)
(* accumulator in it has folded every example read; when an exception      *)
(* (a failing pull among them) has left analyze_dataset nothing has been   *)
(* returned, and nothing is returned later.                                *)
(***************************************************************************)
CompleteResultOrError ==
    /\ result.returned =>
          /\ pc = "returned"
          /\ end_of_dataset
          /\ result.columns = columns
          /\ \A c \in ColumnIndexes : folded[c] = ColumnCells(batches_read, c)
    /\ pc = "thrown" => result = NoResult

NoStepAfterThrow == pc # "thrown"

C17_ReaderFailureGivesNoPartialResult ==
    []CompleteResultOrError /\ [][NoStepAfterThrow]_vars

C17_Witness ==
    /\ pc = "thrown"
    /\ result = NoResult
    /\ Len(batches_read) = 2
    /\ Len(columns) = 2
    /\ \A b \in 1..Len(batches_read) :
          /\ Len(batches_read[b].features) = Len(columns)
          /\ ~HasNonStringColumn(batches_read[b])
    /\ \A c \in ColumnIndexes :
          folded[c] = ColumnCells(batches_read, c) /\ Len(folded[c]) = 2

(***************************************************************************)
(* C18: in every state, an accumulator whose column index is not in        *)
(* capture_columns has an empty captured set and a false overflowed flag.  *)
(***************************************************************************)
C18_UncapturedColumnsStayEmpty ==
    \A c \in ColumnIndexes :
        (c - 1) \notin capture_columns =>
            CapturedSet(c) = {} /\ ~Overflowed(c)

C18_Witness ==
    /\ Len(columns) = 2
    /\ 0 \in capture_columns
    /\ 1 \notin capture_columns
    /\ max_capture_count = 1
    /\ Overflowed(1)
    /\ Cardinality(SeqRange(folded[2])) = 2
    /\ Len(batches_read) = 2

(***************************************************************************)
(* C19: from the first example on there is one accumulator per column of   *)
(* the first example, named after its descriptor, in schema order; no      *)
(* step after the first example changes the number or a name.              *)
(***************************************************************************)
AccumulatorNames == [c \in ColumnIndexes |-> columns[c].column_name]

C19_AccumulatorsFixedByFirstExample ==
    Len(batches_read) >= 1 =>
        AccumulatorNames
            = [i \in 1..Len(batches_read[1].features) |->
                  descriptors(batches_read[1])[i].name]

(***************************************************************************)
(* C20: in every state, an accumulator whose overflowed flag is true holds *)
(* exactly max_capture_count captured values; and folding a cell that is   *)
(* already captured leaves the flag as it was.                             *)
(***************************************************************************)
OverflowOnlyWhenFull ==
    \A c \in ColumnIndexes :
        Overflowed(c) => Cardinality(CapturedSet(c)) = max_capture_count

RepeatedValueKeepsFlag ==
    Len(folded'[1]) = Len(folded[1]) + 1
        /\ folded'[1][Len(folded'[1])] \in CapturedSet(1)
        => Overflowed(1)' = Overflowed(1)

C20_OverflowOnlyWhenSetIsFull ==
    []OverflowOnlyWhenFull /\ [][RepeatedValueKeepsFlag]_vars

C20_Witness ==
    /\ 0 \in capture_columns
    /\ max_capture_count = 2
    /\ folded[1] = << <<"1">>, <<"2">>, <<"1">>, <<>> >>
    /\ Overflowed(1)
    /\ Cardinality(CapturedSet(1)) = 2

====
